---------------------------- MODULE Spec2Model ----------------------------
(***************************************************************************)
(* Model of battler-ai-gemini-py/main.py: option validation, prompt        *)
(* templating, the list-then-create reconciliation of remote files and of  *)
(* the context cache, and the single generation call.                      *)
(*                                                                         *)
(* Text is modelled as a sequence of one-character strings, so that the    *)
(* regular expressions and the JSON round trip of the program are computed *)
(* character by character.  Python's None is the empty tuple and a present *)
(* optional value x is <<x>>.                                              *)
(***************************************************************************)
EXTENDS Integers, Sequences, FiniteSets, TLC

\* ------------------------------------------------------------------ bounds
\* Number of runs (processes executing main()) against the remote account.
MaxRuns == 2

Runs == 1..MaxRuns

\* Longest player identifier given to validate_player on its own.
MaxPlayerLen == 3

\* Longest run of whitespace on either side of the key of a placeholder.
MaxBlank == 2

\* ------------------------------------------------------------- text basics
None == <<>>

Some(x) == <<x>>

Lower == {"a","b","c","d","e","f","g","h","i","j","k","l","m",
          "n","o","p","q","r","s","t","u","v","w","x","y","z"}

Upper == {"A","B","C","D","E","F","G","H","I","J","K","L","M",
          "N","O","P","Q","R","S","T","U","V","W","X","Y","Z"}

Digits == {"0","1","2","3","4","5","6","7","8","9"}

\* The characters of [A-Za-z0-9_].
AsciiWord == Lower \cup Upper \cup Digits \cup {"_"}

\* Characters outside ASCII are written by their code point: e with acute
\* accent (a letter), ARABIC-INDIC DIGIT THREE (a decimal digit) and the
\* EURO SIGN (neither).
UnicodeAlnum == {"U+00E9", "U+0663"}

EuroSign == "U+20AC"

\* Python's \w on str patterns (no re.ASCII flag): the underscore and every
\* character that str.isalnum() accepts, in any script.
WordChars == AsciiWord \cup UnicodeAlnum

\* Python's \s restricted to the characters that occur in the model.
Whitespace == {" ", "\t", "\n", "\r"}

Range(s) == {s[i] : i \in 1..Len(s)}

\* s[i..] starts with the text p.
StartsWithAt(s, i, p) ==
    /\ i >= 1
    /\ i + Len(p) - 1 <= Len(s)
    /\ \A k \in 1..Len(p) : s[i + k - 1] = p[k]

\* Python's `sub in s`.
IsSubstring(sub, s) == \E i \in 1..(Len(s) + 1) : StartsWithAt(s, i, sub)

\* First index >= i whose character is not in the class cls (Len(s)+1 if none).
SkipClass(s, i, cls) ==
    LET stops == {j \in i..(Len(s) + 1) : j = Len(s) + 1 \/ s[j] \notin cls}
    IN  CHOOSE j \in stops : \A k \in stops : j <= k

\* F applied to the value of v: v is evaluated once, as an assignment to a
\* local variable is, and the body F works on that value.
With(v, F(_)) == CHOOSE result \in {F(x) : x \in {v}} : TRUE

\* ------------------------------------------------------------------ errors
NoError == [exc |-> "", msg |-> ""]

Raise(exc, msg) == [exc |-> exc, msg |-> msg]

\* Result of a function that either returns a value or raises.
Return(v) == [error |-> NoError, value |-> v]

Raised(exc, msg) == [error |-> Raise(exc, msg), value |-> None]

\* --------------------------------------------------------- validate_player
\* re.findall(r"^[\w-]+$", player): every character is a word character or
\* "-"; "$" also matches just before one trailing newline.
PlayerPatternMatches(player) ==
    \E n \in 1..Len(player) :
        /\ n = Len(player) \/ (n = Len(player) - 1 /\ player[Len(player)] = "\n")
        /\ \A i \in 1..n : player[i] \in WordChars \cup {"-"}

validate_player(player) ==
    IF player = None \/ player = Some(<<>>)
    THEN Raised("NameError", "Player ID is not defined")
    ELSE IF ~PlayerPatternMatches(player[1])
    THEN Raised("ValueError", "Player is not an alphanumeric ID")
    ELSE Return(player[1])

\* ------------------------------------------------------ json.loads / dumps
\* JSON values: objects keep their keys in insertion order, as a Python dict.
\* The grammar covered is objects, arrays, strings without escapes and
\* unsigned integers, which is what the battle inputs of the model use.
JStr(text) == [t |-> "str", text |-> text, keys |-> <<>>, vals |-> <<>>]

JNum(text) == [t |-> "num", text |-> text, keys |-> <<>>, vals |-> <<>>]

JArr(vals) == [t |-> "arr", text |-> <<>>, keys |-> <<>>, vals |-> vals]

JObj(keys, vals) == [t |-> "obj", text |-> <<>>, keys |-> keys, vals |-> vals]

ParseFail == [ok |-> FALSE, val |-> JArr(<<>>), next |-> 0]

ParseOk(v, n) == [ok |-> TRUE, val |-> v, next |-> n]

SkipWs(s, i) == SkipClass(s, i, Whitespace)

\* dict[k] = v: a repeated key keeps its first position and takes the new value.
DictPut(keys, vals, k, v) ==
    IF \E i \in 1..Len(keys) : keys[i] = k
    THEN LET i == CHOOSE j \in 1..Len(keys) : keys[j] = k
         IN  [keys |-> keys, vals |-> [vals EXCEPT ![i] = v]]
    ELSE [keys |-> Append(keys, k), vals |-> Append(vals, v)]

\* A string literal starting at the opening quote s[i].
ParseString(s, i) ==
    IF i > Len(s) \/ s[i] # "\"" THEN ParseFail
    ELSE LET j == SkipClass(s, i + 1, Range(s) \ {"\"", "\\", "\n", "\r", "\t"})
         IN  IF j <= Len(s) /\ s[j] = "\""
             THEN ParseOk(JStr(SubSeq(s, i + 1, j - 1)), j + 1)
             ELSE ParseFail

\* An unsigned integer literal starting at s[i]: 0 or [1-9][0-9]*.
ParseNumber(s, i) ==
    LET j == IF s[i] = "0" THEN i + 1 ELSE SkipClass(s, i, Digits)
    IN  IF j > i THEN ParseOk(JNum(SubSeq(s, i, j - 1)), j) ELSE ParseFail

RECURSIVE ParseValue(_, _), ParseMembers(_, _, _, _), ParseElements(_, _, _),
          AfterMember(_, _, _, _)

\* The value starting at the first non-blank character at or after s[i].
ParseValue(s, i) ==
    With(SkipWs(s, i), LAMBDA j :
        IF j > Len(s) THEN ParseFail
        ELSE IF s[j] = "\"" THEN ParseString(s, j)
        ELSE IF s[j] \in Digits THEN ParseNumber(s, j)
        ELSE IF s[j] = "{" THEN
            With(SkipWs(s, j + 1), LAMBDA k :
                IF k <= Len(s) /\ s[k] = "}"
                THEN ParseOk(JObj(<<>>, <<>>), k + 1)
                ELSE ParseMembers(s, k, <<>>, <<>>))
        ELSE IF s[j] = "[" THEN
            With(SkipWs(s, j + 1), LAMBDA k :
                IF k <= Len(s) /\ s[k] = "]"
                THEN ParseOk(JArr(<<>>), k + 1)
                ELSE ParseElements(s, k, <<>>))
        ELSE ParseFail)

\* After a member's value v: the closing brace ends the object, a comma
\* continues with the next key.
AfterMember(s, v, keys, vals) ==
    LET e == SkipWs(s, v.next)
    IN  IF e > Len(s) THEN ParseFail
        ELSE IF s[e] = "}" THEN ParseOk(JObj(keys, vals), e + 1)
        ELSE IF s[e] = "," THEN ParseMembers(s, SkipWs(s, e + 1), keys, vals)
        ELSE ParseFail

\* Members of an object from the key at s[i] up to the closing brace.
ParseMembers(s, i, keys, vals) ==
    With(ParseString(s, i), LAMBDA key :
        IF ~key.ok THEN ParseFail
        ELSE With(SkipWs(s, key.next), LAMBDA c :
            IF c > Len(s) \/ s[c] # ":" THEN ParseFail
            ELSE With(ParseValue(s, c + 1), LAMBDA v :
                IF ~v.ok THEN ParseFail
                ELSE With(DictPut(keys, vals, key.val.text, v.val), LAMBDA d :
                        AfterMember(s, v, d.keys, d.vals)))))

\* Elements of an array from the value at s[i] up to the closing bracket.
ParseElements(s, i, vals) ==
    With(ParseValue(s, i), LAMBDA v :
        IF ~v.ok THEN ParseFail
        ELSE With(SkipWs(s, v.next), LAMBDA e :
            IF e > Len(s) THEN ParseFail
            ELSE IF s[e] = "]" THEN ParseOk(JArr(Append(vals, v.val)), e + 1)
            ELSE IF s[e] = "," THEN ParseElements(s, SkipWs(s, e + 1), Append(vals, v.val))
            ELSE ParseFail))

\* json.loads: one value, surrounded by optional whitespace, and nothing else.
json_loads(s) ==
    With(ParseValue(s, 1), LAMBDA v :
        IF v.ok /\ SkipWs(s, v.next) = Len(s) + 1 THEN v ELSE ParseFail)

RECURSIVE json_dumps(_), DumpItems(_, _, _)

\* Faulty variant of DumpItems: the loop stops one item early.
DumpItems_DropLast(keys, vals, i) ==
    IF i >= Len(vals) THEN <<>>
    ELSE (IF i > 1 THEN <<",", " ">> ELSE <<>>)
         \o (IF keys # <<>> THEN <<"\"">> \o keys[i] \o <<"\"", ":", " ">> ELSE <<>>)
         \o json_dumps(vals[i])
         \o DumpItems(keys, vals, i + 1)

\* The items of an array (keys empty) or an object from index i, ", "-separated.
DumpItems(keys, vals, i) ==
    IF i > Len(vals) THEN <<>>
    ELSE (IF i > 1 THEN <<",", " ">> ELSE <<>>)
         \o (IF keys # <<>> THEN <<"\"">> \o keys[i] \o <<"\"", ":", " ">> ELSE <<>>)
         \o json_dumps(vals[i])
         \o DumpItems(keys, vals, i + 1)

\* json.dumps with the default separators ", " and ": ".
json_dumps(v) ==
    CASE v.t = "str" -> <<"\"">> \o v.text \o <<"\"">>
      [] v.t = "num" -> v.text
      [] v.t = "arr" -> <<"[">> \o DumpItems(<<>>, v.vals, 1) \o <<"]">>
      [] v.t = "obj" -> <<"{">> \o DumpItems(v.keys, v.vals, 1) \o <<"}">>

\* ---------------------------------------------------------- validate_input
KeyPlayerData == <<"p", "l", "a", "y", "e", "r", "_", "d", "a", "t", "a">>

KeyBattleState == <<"b", "a", "t", "t", "l", "e", "_", "s", "t", "a", "t", "e">>

KeyRequestData == <<"r", "e", "q", "u", "e", "s", "t", "_", "d", "a", "t", "a">>

KeyFailedActions == <<"f", "a", "i", "l", "e", "d", "_", "a", "c", "t", "i", "o", "n", "s">>

\* `key in input` for a dict.
HasKey(obj, key) == \E i \in 1..Len(obj.keys) : obj.keys[i] = key

\* Line 58 raises "from e" outside the except block, where e is unbound:
\* Python raises UnboundLocalError there instead of the ValueError.
validate_input(input) ==
    IF input = None \/ input = Some(<<>>)
    THEN Raised("NameError", "Input is not defined")
    ELSE With(json_loads(input[1]), LAMBDA parsed :
             IF ~parsed.ok
             THEN Raised("ValueError", "Battle input is not valid JSON")
             ELSE IF parsed.val.t # "obj"
             THEN Raised("UnboundLocalError", "e")
             ELSE IF ~HasKey(parsed.val, KeyPlayerData)
             THEN Raised("ValueError", "Battle input is missing player data")
             ELSE IF ~HasKey(parsed.val, KeyBattleState)
             THEN Raised("ValueError", "Battle input is missing battle state")
             ELSE IF ~HasKey(parsed.val, KeyRequestData)
             THEN Raised("ValueError", "Battle input is missing request data")
             ELSE IF ~HasKey(parsed.val, KeyFailedActions)
             THEN Raised("ValueError", "Battle input is missing failed actions")
             ELSE Return(json_dumps(parsed.val)))

\* ----------------------------------------------------------- validate_data
\* A path argument carries what the file system holds there: path_exists,
\* path_is_dir and entries, the paths dir.rglob("*") yields, in that order.
\* A pathlib.Path is always truthy, so the NameError of line 74 cannot occur.
validate_data(data) ==
    IF ~data.path_exists
    THEN Raised("ValueError", "Data directory does not exist")
    ELSE IF ~data.path_is_dir
    THEN Raised("ValueError", "Data directory is not a directory")
    ELSE Return(data)

\* ------------------------------------------------------------ prompt_input
PlaceholderOpen == <<"$", "{", "{">>

PlaceholderClose == <<"}", "}">>

\* End (exclusive) of the match of \$\{\{\s+KEY\s+\}\} starting at s[i], or 0.
\* The first \s+ is greedy and backtracks; the second one is followed by "}"
\* and so takes the whole run of whitespace.
PlaceholderEnd(s, i, key) ==
    LET w    == i + Len(PlaceholderOpen)
        wEnd == SkipClass(s, w, Whitespace)
        ends == {n \in (w + 1)..wEnd :
                    LET k == n + Len(key)
                        c == SkipClass(s, k, Whitespace)
                    IN  /\ StartsWithAt(s, n, key)
                        /\ c > k
                        /\ StartsWithAt(s, c, PlaceholderClose)}
    IN  IF StartsWithAt(s, i, PlaceholderOpen) /\ w <= Len(s) /\ ends # {}
        THEN LET n == CHOOSE m \in ends : \A o \in ends : m >= o
             IN  SkipClass(s, n + Len(key), Whitespace) + Len(PlaceholderClose)
        ELSE 0

RECURSIVE SubFrom(_, _, _, _)

\* re.sub from position i: leftmost non-overlapping matches, left to right;
\* the replacement is a function, so the value is inserted verbatim and the
\* scan goes on after the match, in the text as it was given.
SubFrom(s, i, key, value) ==
    LET starts == {n \in i..Len(s) : PlaceholderEnd(s, n, key) > 0}
    IN  IF starts = {} THEN SubSeq(s, i, Len(s))
        ELSE LET n == CHOOSE m \in starts : \A o \in starts : m <= o
             IN  SubSeq(s, i, n - 1) \o value
                 \o SubFrom(s, PlaceholderEnd(s, n, key), key, value)

prompt_input(prompt, key, value) == SubFrom(prompt, 1, key, value)

\* --------------------------------------------------------------- read_file
\* The files next to the program: None when absent, else their text.
read_file(file) ==
    IF file = None THEN Raised("FileNotFoundError", "File does not exist")
    ELSE Return(file[1])

\* context.md: the system context of the model.
ContextFile == Some(<<"P", "i", "c", "k", " ", "a", " ", "m", "o", "v", "e", ".">>)

\* prompt.md: "${{ PLAYER }}: ${{ INPUT }}".
PromptFile ==
    Some(<<"$", "{", "{", " ", "P", "L", "A", "Y", "E", "R", " ", "}", "}", ":", " ",
           "$", "{", "{", " ", "I", "N", "P", "U", "T", " ", "}", "}">>)

KeyPLAYER == <<"P", "L", "A", "Y", "E", "R">>

KeyINPUT == <<"I", "N", "P", "U", "T">>

\* ------------------------------------------- ensure_all_files_in_directory
RECURSIVE SubNonWord(_, _)

\* re.sub(r"\W+", "_", s) from position i.
SubNonWord(s, i) ==
    IF i > Len(s) THEN <<>>
    ELSE IF s[i] \in WordChars THEN <<s[i]>> \o SubNonWord(s, i + 1)
    ELSE <<"_">> \o SubNonWord(s, SkipClass(s, i, Range(s) \ WordChars))

\* f"{prefix}_{name}" with name the relative path, non-word runs replaced.
DisplayNameOf(prefix, rel) == prefix \o <<"_">> \o SubNonWord(rel, 1)

\* pathlib's suffix: the last component from its last dot, unless that dot is
\* the component's first or last character.
Suffix(path) ==
    LET slashes == {i \in 1..Len(path) : path[i] = "/"}
        start   == IF slashes = {} THEN 1
                   ELSE 1 + CHOOSE i \in slashes : \A j \in slashes : i >= j
        name    == SubSeq(path, start, Len(path))
        dots    == {i \in 1..Len(name) : name[i] = "."}
        dot     == IF dots = {} THEN 0 ELSE CHOOSE i \in dots : \A j \in dots : i >= j
    IN  IF 1 < dot /\ dot < Len(name) THEN SubSeq(name, dot, Len(name)) ELSE <<>>

SuffixJson == <<".", "j", "s", "o", "n">>

\* The filter gemini_battler passes: lambda path: path.suffix == ".json".
JsonFilter(entry) == Suffix(entry.rel) = SuffixJson

\* Index of the next path at or after i that is a file and passes the filter
\* (Len(entries) + 1 when the traversal is over).
NextEligible(entries, i) ==
    LET rest == {j \in i..(Len(entries) + 1) :
                    j = Len(entries) + 1
                    \/ (entries[j].is_file /\ JsonFilter(entries[j]))}
    IN  CHOOSE j \in rest : \A k \in rest : j <= k

\* mimetypes.guess_type(path)[0], from the suffix.
GuessMimeType(path) ==
    IF Suffix(path) = SuffixJson THEN Some("application/json")
    ELSE IF Suffix(path) = <<".", "t", "x", "t">> THEN Some("text/plain")
    ELSE None

PrefixData == <<"d", "a", "t", "a">>

CacheDisplayName == <<"b", "a", "t", "t", "l", "e", "r">>

ModelName == "models/gemini-2.5-flash"

CacheTtl == "300s"

\* ------------------------------------------------------ command-line inputs
PlayerArgs == {None, Some(<<"p", "1">>), Some(<<"p", "!">>)}

\* {"failed_actions":[],"request_data":{},"battle_state":{},
\*  "player_data":{"n":"${{ PLAYER }}${{ INPUT }}"}}
\* A battle input is free text of the caller: this one holds, in a string,
\* the text of both placeholders of the prompt template.
InputComplete ==
    <<"{", "\"", "f", "a", "i", "l", "e", "d", "_", "a", "c", "t", "i", "o", "n", "s", "\"", ":", "[", "]", ",",
      "\"", "r", "e", "q", "u", "e", "s", "t", "_", "d", "a", "t", "a", "\"", ":", "{", "}", ",",
      "\"", "b", "a", "t", "t", "l", "e", "_", "s", "t", "a", "t", "e", "\"", ":", "{", "}", ",",
      "\"", "p", "l", "a", "y", "e", "r", "_", "d", "a", "t", "a", "\"", ":", "{", "\"", "n", "\"", ":", "\"",
      "$", "{", "{", " ", "P", "L", "A", "Y", "E", "R", " ", "}", "}",
      "$", "{", "{", " ", "I", "N", "P", "U", "T", " ", "}", "}", "\"", "}", "}">>

\* {"player_data": {}, "battle_state": {}, "request_data": {}}
InputNoFailedActions ==
    <<"{", "\"", "p", "l", "a", "y", "e", "r", "_", "d", "a", "t", "a", "\"", ":", " ", "{", "}", ",", " ",
      "\"", "b", "a", "t", "t", "l", "e", "_", "s", "t", "a", "t", "e", "\"", ":", " ", "{", "}", ",", " ",
      "\"", "r", "e", "q", "u", "e", "s", "t", "_", "d", "a", "t", "a", "\"", ":", " ", "{", "}", "}">>

\* {"player_data": {}
InputMalformed ==
    <<"{", "\"", "p", "l", "a", "y", "e", "r", "_", "d", "a", "t", "a", "\"", ":", " ", "{", "}">>

InputArgs ==
    {None, Some(InputComplete), Some(InputNoFailedActions), Some(InputMalformed),
     Some(<<"[", "]">>), Some(<<"0">>)}

Entry(rel, isFile) == [rel |-> rel, is_file |-> isFile]

\* The data directory: two files whose names differ in one non-word
\* character, a file in a subdirectory, a text file and the subdirectory.
DataDirEntries ==
    <<Entry(<<"a", "-", "b", ".", "j", "s", "o", "n">>, TRUE),
      Entry(<<"n", "o", "t", "e", "s", ".", "t", "x", "t">>, TRUE),
      Entry(<<"s", "u", "b">>, FALSE),
      Entry(<<"s", "u", "b", "/", "c", ".", "j", "s", "o", "n">>, TRUE),
      Entry(<<"a", "_", "b", ".", "j", "s", "o", "n">>, TRUE)>>

PathMissing == [path_exists |-> FALSE, path_is_dir |-> FALSE, entries |-> <<>>]

PathFile == [path_exists |-> TRUE, path_is_dir |-> FALSE, entries |-> <<>>]

PathDir == [path_exists |-> TRUE, path_is_dir |-> TRUE, entries |-> DataDirEntries]

DataArgs == {None, Some(PathMissing), Some(PathFile), Some(PathDir)}

\* What the remote model may answer: no text, empty text, a decision.
ResponseTexts == {None, Some(<<>>), Some(<<"m", "o", "v", "e", " ", "1">>)}

\* Validation is a function of the argument: computed once per argument.
ValidatedPlayer == [p \in PlayerArgs |-> validate_player(p)]

ValidatedInput == [i \in InputArgs |-> validate_input(i)]

\* ------------------------------------------------------------- remote state
\* A file and a cache left on the account by earlier activity, with content
\* that differs from what a run of the model would create.
StaleFile ==
    [name |-> 1, display_name |-> DisplayNameOf(PrefixData, DataDirEntries[1].rel),
     mime_type |-> Some("text/plain"), source |-> <<"o", "l", "d">>, by |-> 0]

StaleCache ==
    [name |-> 1, display_name |-> CacheDisplayName, model |-> ModelName,
     system_instruction |-> <<"o", "l", "d">>, contents |-> None, ttl |-> "60s", by |-> 0]

\* ------------------------------------------------------------------- state
VARIABLES
    pc,            \* position of each run
    opts,          \* Options of each run
    context,       \* text of context.md read by run()
    prompt,        \* rendered prompt
    model,         \* result of client.models.get
    idx,           \* position of the rglob loop in the data directory
    files,         \* files: None, or the list built by ensure_all_files_in_directory
    cache,         \* result of ensure_cache
    config,        \* GenerateContentConfig
    calls,         \* remote calls issued by each run, in order
    output,        \* response.text
    printed,       \* what run() printed after "Output"
    error,         \* exception that ended the run
    remoteFiles,   \* uploaded files of the account, in listing order
    remoteCaches,  \* content caches of the account, in listing order
    textCall,      \* a call of one text function on its own: name and arguments
    textResult     \* None while that call is pending, else <<what it gave>>

vars == <<pc, opts, context, prompt, model, idx, files, cache, config, calls,
          output, printed, error, remoteFiles, remoteCaches, textCall, textResult>>

\* The variables of the runs, and those of a text function called on its own.
runVars == <<pc, opts, context, prompt, model, idx, files, cache, config, calls,
             output, printed, error, remoteFiles, remoteCaches>>

textVars == <<textCall, textResult>>

\* No text function is called on its own while main() runs.
NoCall == [fn |-> "", text |-> None, subs |-> <<>>]

NoOptions ==
    [player |-> <<>>, input |-> <<>>, use_cache |-> FALSE, data |-> None,
     use_data_files |-> FALSE]

NoConfig == [system_instruction |-> None, cached_content |-> None]

\* No run has started.
NotStarted ==
    /\ pc = [r \in Runs |-> "start"]
    /\ opts = [r \in Runs |-> NoOptions]
    /\ context = [r \in Runs |-> <<>>]
    /\ prompt = [r \in Runs |-> <<>>]
    /\ model = [r \in Runs |-> None]
    /\ idx = [r \in Runs |-> 0]
    /\ files = [r \in Runs |-> None]
    /\ cache = [r \in Runs |-> None]
    /\ config = [r \in Runs |-> NoConfig]
    /\ calls = [r \in Runs |-> <<>>]
    /\ output = [r \in Runs |-> None]
    /\ printed = [r \in Runs |-> None]
    /\ error = [r \in Runs |-> NoError]

Init ==
    /\ NotStarted
    /\ remoteFiles \in {<<>>, <<StaleFile>>}
    /\ remoteCaches \in {<<>>, <<StaleCache>>}
    /\ textCall = NoCall
    /\ textResult = None

\* ----------------------------------------------------------------- helpers
\* Options.__init__: player, input and data are validated in this order and
\* the first failure propagates.
Options(args) ==
    LET p == ValidatedPlayer[args.player]
        i == ValidatedInput[args.input]
        d == IF args.data # None THEN validate_data(args.data[1]) ELSE Return(None)
    IN  IF p.error # NoError THEN [error |-> p.error, value |-> NoOptions]
        ELSE IF i.error # NoError THEN [error |-> i.error, value |-> NoOptions]
        ELSE IF d.error # NoError THEN [error |-> d.error, value |-> NoOptions]
        ELSE Return([player |-> p.value, input |-> i.value,
                     use_cache |-> args.use_cache,
                     data |-> IF args.data # None THEN Some(d.value) ELSE None,
                     use_data_files |-> args.use_data_files])

\* Faulty variant of RenderPrompt: the INPUT placeholder is rendered with
\* the player identifier.
RenderPrompt_PlayerTwice(template, o) ==
    prompt_input(prompt_input(template, KeyPLAYER, o.player), KeyINPUT, o.player)

\* Faulty variant of RenderPrompt: INPUT is rendered before PLAYER.
RenderPrompt_InputFirst(template, o) ==
    prompt_input(prompt_input(template, KeyINPUT, o.input), KeyPLAYER, o.player)

\* run(), lines 225-229: the prompt template with PLAYER, then INPUT, rendered.
RenderPrompt(template, o) ==
    prompt_input(prompt_input(template, KeyPLAYER, o.player), KeyINPUT, o.input)

\* Faulty variant of FindByDisplayName: the comparison never succeeds.
FindByDisplayName_Missed(listing, display_name) == 0

\* Index of the first listed resource with the display name, or 0.
FindByDisplayName(listing, display_name) ==
    LET hits == {i \in 1..Len(listing) : listing[i].display_name = display_name}
    IN  IF hits = {} THEN 0 ELSE CHOOSE i \in hits : \A j \in hits : i <= j

\* Faulty variant of BuildConfig: the cache reference is added to the
\* inline configuration.
BuildConfig_Both(ctx, cached) ==
    [system_instruction |-> Some(ctx),
     cached_content |-> IF cached = None THEN None ELSE Some(cached[1].name)]

\* Lines 189 and 199: the configuration of the generate call.
BuildConfig(ctx, cached) ==
    IF cached = None
    THEN [system_instruction |-> Some(ctx), cached_content |-> None]
    ELSE [system_instruction |-> None, cached_content |-> Some(cached[1].name)]

\* The directory entry the rglob loop of run r is at, and its display name.
CurrentEntry(r) == opts[r].data[1].entries[idx[r]]

CurrentDisplayName(r) == DisplayNameOf(PrefixData, CurrentEntry(r).rel)

\* The remote call run r issues at its position.
Request(r) ==
    CASE pc[r] = "models_get" ->
            [op |-> "models.get", model |-> ModelName]
      [] pc[r] = "files_list" ->
            [op |-> "files.list", display_name |-> CurrentDisplayName(r)]
      [] pc[r] = "files_upload" ->
            [op |-> "files.upload", file |-> CurrentEntry(r).rel,
             display_name |-> CurrentDisplayName(r),
             mime_type |-> GuessMimeType(CurrentEntry(r).rel)]
      [] pc[r] = "caches_list" ->
            [op |-> "caches.list", display_name |-> CacheDisplayName]
      [] pc[r] = "caches_create" ->
            [op |-> "caches.create", model |-> model[r][1].name,
             display_name |-> CacheDisplayName, system_instruction |-> context[r],
             contents |-> files[r], ttl |-> CacheTtl]
      [] pc[r] = "generate" ->
            [op |-> "generate_content", model |-> model[r][1].name,
             contents |-> prompt[r], config |-> config[r]]

RemotePcs == {"models_get", "files_list", "files_upload", "caches_list",
              "caches_create", "generate"}

Issue(r) == calls' = [calls EXCEPT ![r] = Append(@, Request(r))]

\* The run ends with an uncaught exception.
Abort(r, err) ==
    /\ pc' = [pc EXCEPT ![r] = "failed"]
    /\ error' = [error EXCEPT ![r] = err]

\* Faulty variant of AfterFiles: the cache is reconciled whatever use_cache.
AfterFiles_AlwaysCache(r) ==
    /\ config' = [config EXCEPT ![r] = BuildConfig(context[r], None)]
    /\ pc' = [pc EXCEPT ![r] = "caches_list"]

\* Lines 189-191 once files is known: the inline configuration, then the
\* cache reconciliation if enabled, else the generate call.
AfterFiles(r) ==
    /\ config' = [config EXCEPT ![r] = BuildConfig(context[r], None)]
    /\ pc' = [pc EXCEPT ![r] = IF opts[r].use_cache THEN "caches_list" ELSE "generate"]

\* ensure_file returned file: append it and go on with the rglob loop.
\* The list under construction is kept in files[r].
NextFile(r, file) ==
    LET entries == opts[r].data[1].entries
        n       == NextEligible(entries, idx[r] + 1)
    IN  /\ files' = [files EXCEPT ![r] = Some(Append(@[1], file))]
        /\ idx' = [idx EXCEPT ![r] = n]
        /\ IF n <= Len(entries)
           THEN /\ pc' = [pc EXCEPT ![r] = "files_list"]
                /\ UNCHANGED config
           ELSE AfterFiles(r)

\* ----------------------------------------------------------------- actions
\* main() up to the construction of the client: Options(args), then run()
\* reads the two templates and renders the prompt.  An exception of
\* Options.__init__ leaves main() before run() is called.
Prepare(args) ==
    With(Options(args), LAMBDA o :
        LET ctx == read_file(ContextFile)
            tpl == read_file(PromptFile)
            bad == [error |-> o.error, opts |-> NoOptions, context |-> <<>>,
                    prompt |-> <<>>]
        IN  IF o.error # NoError THEN bad
            ELSE IF ctx.error # NoError
            THEN [bad EXCEPT !.error = ctx.error, !.opts = o.value]
            ELSE IF tpl.error # NoError
            THEN [bad EXCEPT !.error = tpl.error, !.opts = o.value,
                             !.context = ctx.value]
            ELSE [error |-> NoError, opts |-> o.value, context |-> ctx.value,
                  prompt |-> RenderPrompt(tpl.value, o.value)])

\* The command lines of the model.
Args ==
    [player : PlayerArgs, input : InputArgs, data : DataArgs,
     use_cache : BOOLEAN, use_data_files : BOOLEAN]

\* What main() has reached before its first remote call, per command line.
Prepared == {Prepare(args) : args \in Args}

\* Faulty variant of Reject: the model metadata is fetched before the
\* options are validated.
Reject_AfterModelsGet(r, err) ==
    /\ Abort(r, err)
    /\ calls' = [calls EXCEPT ![r] = Append(@, [op |-> "models.get", model |-> ModelName])]

\* An exception raised before gemini_battler is entered: no client exists
\* yet and nothing was sent.
Reject(r, err) ==
    /\ Abort(r, err)
    /\ UNCHANGED calls

\* main() with some command line, up to the first remote call.
\* Runs are numbered in the order in which they start.
Start(r) ==
    /\ UNCHANGED textVars
    /\ pc[r] = "start"
    /\ \A q \in 1..(r - 1) : pc[q] # "start"
    /\ \E p \in Prepared :
        /\ opts' = [opts EXCEPT ![r] = p.opts]
        /\ context' = [context EXCEPT ![r] = p.context]
        /\ prompt' = [prompt EXCEPT ![r] = p.prompt]
        /\ IF p.error # NoError
           THEN Reject(r, p.error)
           ELSE /\ pc' = [pc EXCEPT ![r] = "models_get"]
                /\ UNCHANGED <<error, calls>>
    /\ UNCHANGED <<model, idx, files, cache, config, output, printed,
                   remoteFiles, remoteCaches>>

\* client.models.get answers; then lines 176-191 up to the next remote call.
ModelsGet(r) ==
    /\ UNCHANGED textVars
    /\ pc[r] = "models_get"
    /\ Issue(r)
    /\ model' = [model EXCEPT ![r] = Some([name |-> ModelName])]
    /\ LET o == opts[r]
       IN  IF o.use_data_files /\ ~o.use_cache
           THEN /\ Abort(r, Raise("ValueError", "Caching must be enabled if using data files"))
                /\ UNCHANGED <<idx, files, config>>
           ELSE IF o.use_data_files /\ o.data = None
           THEN /\ Abort(r, Raise("ValueError", "Data directory must be defined if using data files"))
                /\ UNCHANGED <<idx, files, config>>
           ELSE IF o.use_data_files
           THEN LET n == NextEligible(o.data[1].entries, 1)
                IN  /\ files' = [files EXCEPT ![r] = Some(<<>>)]
                    /\ idx' = [idx EXCEPT ![r] = n]
                    /\ UNCHANGED error
                    /\ IF n <= Len(o.data[1].entries)
                       THEN /\ pc' = [pc EXCEPT ![r] = "files_list"]
                            /\ UNCHANGED config
                       ELSE AfterFiles(r)
           ELSE /\ AfterFiles(r)
                /\ UNCHANGED <<idx, files, error>>
    /\ UNCHANGED <<opts, context, prompt, cache, output, printed,
                   remoteFiles, remoteCaches>>

\* Faulty variant of FilesList: the file is uploaded whatever the listing holds.
FilesList_UploadAnyway(r) ==
    /\ UNCHANGED textVars
    /\ pc[r] = "files_list"
    /\ Issue(r)
    /\ pc' = [pc EXCEPT ![r] = "files_upload"]
    /\ UNCHANGED <<opts, context, prompt, model, idx, files, cache, config,
                   output, printed, error, remoteFiles, remoteCaches>>

\* ensure_file, lines 100-103: client.files.list() answers.
FilesList(r) ==
    /\ UNCHANGED textVars
    /\ pc[r] = "files_list"
    /\ Issue(r)
    /\ LET found == FindByDisplayName(remoteFiles, CurrentDisplayName(r))
       IN  IF found # 0
           THEN NextFile(r, remoteFiles[found])
           ELSE /\ pc' = [pc EXCEPT ![r] = "files_upload"]
                /\ UNCHANGED <<idx, files, config>>
    /\ UNCHANGED <<opts, context, prompt, model, cache, output, printed, error,
                   remoteFiles, remoteCaches>>

\* Faulty variant of FilesUpload: the upload replaces the files of the
\* account instead of adding to them.
FilesUpload_Replace(r) ==
    /\ UNCHANGED textVars
    /\ pc[r] = "files_upload"
    /\ Issue(r)
    /\ LET file == [name |-> Len(remoteFiles) + 1,
                    display_name |-> CurrentDisplayName(r),
                    mime_type |-> GuessMimeType(CurrentEntry(r).rel),
                    source |-> CurrentEntry(r).rel, by |-> r]
       IN  /\ remoteFiles' = <<file>>
           /\ NextFile(r, file)
    /\ UNCHANGED <<opts, context, prompt, model, cache, output, printed, error,
                   remoteCaches>>

\* Faulty variant of FilesUpload: the file is uploaded under its relative
\* path instead of the display name that was looked up.
FilesUpload_RawName(r) ==
    /\ UNCHANGED textVars
    /\ pc[r] = "files_upload"
    /\ Issue(r)
    /\ LET file == [name |-> Len(remoteFiles) + 1,
                    display_name |-> CurrentEntry(r).rel,
                    mime_type |-> GuessMimeType(CurrentEntry(r).rel),
                    source |-> CurrentEntry(r).rel, by |-> r]
       IN  /\ remoteFiles' = Append(remoteFiles, file)
           /\ NextFile(r, file)
    /\ UNCHANGED <<opts, context, prompt, model, cache, output, printed, error,
                   remoteCaches>>

\* ensure_file, lines 105-111: client.files.upload() answers.
FilesUpload(r) ==
    /\ UNCHANGED textVars
    /\ pc[r] = "files_upload"
    /\ Issue(r)
    /\ LET file == [name |-> Len(remoteFiles) + 1,
                    display_name |-> CurrentDisplayName(r),
                    mime_type |-> GuessMimeType(CurrentEntry(r).rel),
                    source |-> CurrentEntry(r).rel, by |-> r]
       IN  /\ remoteFiles' = Append(remoteFiles, file)
           /\ NextFile(r, file)
    /\ UNCHANGED <<opts, context, prompt, model, cache, output, printed, error,
                   remoteCaches>>

\* Faulty variant of CachesList: the listing is ignored and the cache is
\* always created.
CachesList_AlwaysCreate(r) ==
    /\ UNCHANGED textVars
    /\ pc[r] = "caches_list"
    /\ Issue(r)
    /\ pc' = [pc EXCEPT ![r] = "caches_create"]
    /\ UNCHANGED <<opts, context, prompt, model, idx, files, cache, config,
                   output, printed, error, remoteFiles, remoteCaches>>

\* ensure_cache, lines 138-141, then line 199: client.caches.list() answers.
CachesList(r) ==
    /\ UNCHANGED textVars
    /\ pc[r] = "caches_list"
    /\ Issue(r)
    /\ LET found == FindByDisplayName(remoteCaches, CacheDisplayName)
       IN  IF found # 0
           THEN /\ cache' = [cache EXCEPT ![r] = Some(remoteCaches[found])]
                /\ config' = [config EXCEPT ![r] =
                                 BuildConfig(context[r], Some(remoteCaches[found]))]
                /\ pc' = [pc EXCEPT ![r] = "generate"]
           ELSE /\ pc' = [pc EXCEPT ![r] = "caches_create"]
                /\ UNCHANGED <<cache, config>>
    /\ UNCHANGED <<opts, context, prompt, model, idx, files, output, printed,
                   error, remoteFiles, remoteCaches>>

\* Faulty variant of CachesCreate: after creating, the cache is looked up
\* again by display name and the first one listed is returned.
CachesCreate_Relist(r) ==
    /\ UNCHANGED textVars
    /\ pc[r] = "caches_create"
    /\ Issue(r)
    /\ LET req     == Request(r)
           created == [name |-> Len(remoteCaches) + 1,
                       display_name |-> req.display_name, model |-> req.model,
                       system_instruction |-> req.system_instruction,
                       contents |-> req.contents, ttl |-> req.ttl, by |-> r]
           listing == Append(remoteCaches, created)
           first   == listing[FindByDisplayName(listing, req.display_name)]
       IN  /\ remoteCaches' = listing
           /\ cache' = [cache EXCEPT ![r] = Some(first)]
           /\ config' = [config EXCEPT ![r] = BuildConfig(context[r], Some(first))]
    /\ pc' = [pc EXCEPT ![r] = "generate"]
    /\ UNCHANGED <<opts, context, prompt, model, idx, files, output, printed,
                   error, remoteFiles>>

\* ensure_cache, lines 142-152, then line 199: client.caches.create() answers.
CachesCreate(r) ==
    /\ UNCHANGED textVars
    /\ pc[r] = "caches_create"
    /\ Issue(r)
    /\ LET req     == Request(r)
           created == [name |-> Len(remoteCaches) + 1,
                       display_name |-> req.display_name, model |-> req.model,
                       system_instruction |-> req.system_instruction,
                       contents |-> req.contents, ttl |-> req.ttl, by |-> r]
       IN  /\ remoteCaches' = Append(remoteCaches, created)
           /\ cache' = [cache EXCEPT ![r] = Some(created)]
           /\ config' = [config EXCEPT ![r] = BuildConfig(context[r], Some(created))]
    /\ pc' = [pc EXCEPT ![r] = "generate"]
    /\ UNCHANGED <<opts, context, prompt, model, idx, files, output, printed,
                   error, remoteFiles>>

\* str(output) as print(f"{output}") renders it.
Format(text) == IF text = None THEN <<"N", "o", "n", "e">> ELSE text[1]

\* Lines 203-211 and 232-233: generate_content answers, its text is returned
\* and printed.
Generate(r) ==
    /\ UNCHANGED textVars
    /\ pc[r] = "generate"
    /\ Issue(r)
    /\ \E text \in ResponseTexts :
        /\ output' = [output EXCEPT ![r] = text]
        /\ printed' = [printed EXCEPT ![r] = Some(Format(text))]
    /\ pc' = [pc EXCEPT ![r] = "done"]
    /\ UNCHANGED <<opts, context, prompt, model, idx, files, cache, config,
                   error, remoteFiles, remoteCaches>>

\* Faulty variant of RemoteError: the exception is caught and the call is
\* issued again.
RemoteError_Retry(r) ==
    /\ UNCHANGED textVars
    /\ pc[r] \in RemotePcs
    /\ Issue(r)
    /\ error' = [error EXCEPT ![r] = Raise("APIError", Request(r).op)]
    /\ UNCHANGED <<pc, opts, context, prompt, model, idx, files, cache, config,
                   output, printed, remoteFiles, remoteCaches>>

\* A remote call raises (network, authentication, quota): nothing catches it.
RemoteError(r) ==
    /\ UNCHANGED textVars
    /\ pc[r] \in RemotePcs
    /\ Issue(r)
    /\ Abort(r, Raise("APIError", Request(r).op))
    /\ UNCHANGED <<opts, context, prompt, model, idx, files, cache, config,
                   output, printed, remoteFiles, remoteCaches>>

Step(r) ==
    \/ Start(r)
    \/ ModelsGet(r)
    \/ FilesList(r)
    \/ FilesUpload(r)
    \/ CachesList(r)
    \/ CachesCreate(r)
    \/ Generate(r)
    \/ RemoteError(r)

\* Runs are separate processes: their remote calls interleave freely.
Next == \E r \in Runs : Step(r)

Spec == Init /\ [][Next]_vars

\* A run is between its first and its last step.
Active(r) == pc[r] \notin {"start", "done", "failed"}

\* Runs one after the other: a run steps only while no other run is under way.
SerialNext == \E r \in Runs : (\A q \in Runs \ {r} : ~Active(q)) /\ Step(r)

SpecSerial == Init /\ [][SerialNext]_vars

\* ------------------------------------------- text functions called on their own
\* The texts of length at most n over an alphabet.
Texts(alphabet, n) == UNION {[1..k -> alphabet] : k \in 0..n}

\* Characters of the player identifiers: letters, a digit, the underscore and
\* the hyphen, a punctuation mark, a newline, and characters outside ASCII.
PlayerAlphabet == {"a", "Z", "7", "_", "-", "!", "\n", "U+00E9", "U+0663", EuroSign}

PlayerTexts == Texts(PlayerAlphabet, MaxPlayerLen)

RECURSIVE Join(_, _)

\* The texts of a sequence, joined by sep.
Join(texts, sep) ==
    IF texts = <<>> THEN <<>>
    ELSE IF Len(texts) = 1 THEN texts[1]
    ELSE texts[1] \o sep \o Join(Tail(texts), sep)

RequiredKeys == <<KeyPlayerData, KeyBattleState, KeyRequestData, KeyFailedActions>>

\* [1, 2] and {"n":"x"}
ValueTexts ==
    {<<"[", "1", ",", " ", "2", "]">>,
     <<"{", "\"", "n", "\"", ":", "\"", "x", "\"", "}">>}

\* The text of a JSON object with the required keys numbered in present, each
\* with the value text given for it; spaced texts list the keys in reverse
\* order with blanks around the punctuation, and extra adds a fifth key.
ObjectText(present, valueOf, spaced, extra) ==
    LET order   == IF spaced THEN <<4, 3, 2, 1>> ELSE <<1, 2, 3, 4>>
        chosen  == SelectSeq(order, LAMBDA k : k \in present)
        colon   == IF spaced THEN <<" ", ":", " ">> ELSE <<":">>
        comma   == IF spaced THEN <<" ", ",", "\n">> ELSE <<",">>
        members == [i \in 1..Len(chosen) |->
                       <<"\"">> \o RequiredKeys[chosen[i]] \o <<"\"">> \o colon
                       \o valueOf[chosen[i]]]
        more    == IF extra THEN <<(<<"\"", "t", "u", "r", "n", "\"">> \o colon \o <<"3">>)>>
                   ELSE <<>>
    IN  <<"{">> \o (IF spaced THEN <<" ">> ELSE <<>>)
        \o Join(members \o more, comma)
        \o (IF spaced THEN <<" ">> ELSE <<>>) \o <<"}">>

ObjectTexts ==
    {ObjectText(DOMAIN f, f, spaced, extra) :
        f \in UNION {[present -> ValueTexts] : present \in SUBSET (1..4)},
        spaced \in BOOLEAN, extra \in BOOLEAN}

\* {"player_data":1,"battle_state":2,"request_data":3,"failed_actions":4,"player_data":5}
ObjectRepeatedKey ==
    <<"{">> \o Join(<<(<<"\"">> \o KeyPlayerData \o <<"\"", ":", "1">>),
                      (<<"\"">> \o KeyBattleState \o <<"\"", ":", "2">>),
                      (<<"\"">> \o KeyRequestData \o <<"\"", ":", "3">>),
                      (<<"\"">> \o KeyFailedActions \o <<"\"", ":", "4">>),
                      (<<"\"">> \o KeyPlayerData \o <<"\"", ":", "5">>)>>, <<",">>)
    \o <<"}">>

\* JSON texts that are no object: arrays (one of them holding the four key
\* names), numbers and a string.
NonObjectTexts ==
    {<<"[", "]">>, <<"[", "{", "}", "]">>, <<"0">>, <<"1", "2">>,
     <<"\"">> \o KeyPlayerData \o <<"\"">>,
     <<"[">> \o Join([i \in 1..4 |-> <<"\"">> \o RequiredKeys[i] \o <<"\"">>], <<",">>)
             \o <<"]">>}

\* Texts that are not JSON.
MalformedTexts ==
    {<<" ">>, <<"x">>, <<"{">>, <<"{", "}", "x">>, <<"[", "1", ",", "]">>,
     <<"{", "\"", "a", "\"", " ", "1", "}">>, <<"0", "1">>, InputMalformed}

InputTexts ==
    ObjectTexts \cup {ObjectRepeatedKey, InputComplete, InputNoFailedActions}
    \cup NonObjectTexts \cup MalformedTexts

KeyX == <<"X">>

KeyZ == <<"Z">>

TemplateKeys == {KeyX, KeyZ}

\* "${{" blank key blank "}}"
Placeholder(before, key, after) ==
    PlaceholderOpen \o before \o key \o after \o PlaceholderClose

Blanks == Texts({" ", "\n"}, MaxBlank)

TemplatePrefixes == {<<>>, <<"a", " ">>}

TemplateSuffixes == {<<>>, <<" ", "b">>}

\* Templates with one placeholder, for every amount of whitespace on each side.
OnePlaceholder ==
    {pre \o Placeholder(before, key, after) \o post :
        pre \in TemplatePrefixes, before \in Blanks, key \in TemplateKeys,
        after \in Blanks, post \in TemplateSuffixes}

\* Templates with several placeholders, with none, and with text that is
\* nearly a placeholder.
OtherTemplates ==
    {Placeholder(<<" ">>, KeyX, <<" ">>) \o Placeholder(<<" ">>, KeyZ, <<" ">>),
     Placeholder(<<" ">>, KeyZ, <<" ">>) \o <<"-">> \o Placeholder(<<" ">>, KeyX, <<" ">>)
        \o <<"-">> \o Placeholder(<<" ">>, KeyZ, <<" ">>),
     <<"$", "{", "{", " ", "$", "{", "{", " ", "X", " ", "}", "}", " ", "}", "}">>,
     <<"n", "o", "n", "e">>,
     <<"$", "{", "{", " ", "X", " ", "}">>,
     <<"{", "{", " ", "X", " ", "}", "}">>,
     <<"$", "{", "{", " ", "x", " ", "}", "}">>,
     <<"$", "{", "{", " ", "X", "Z", " ", "}", "}">>}

Templates == OnePlaceholder \cup OtherTemplates

\* Values rendered into a template: plain, empty, and placeholder text.
TemplateValues ==
    {<<"Y">>, <<>>, Placeholder(<<" ">>, KeyZ, <<" ">>),
     Placeholder(<<" ">>, KeyX, <<" ">>)}

TextCalls ==
    {[fn |-> "validate_player", text |-> p, subs |-> <<>>] :
        p \in {None} \cup {Some(s) : s \in PlayerTexts}}
    \cup {[fn |-> "validate_input", text |-> i, subs |-> <<>>] :
        i \in {None} \cup {Some(s) : s \in InputTexts \cup {<<>>}}}
    \cup {[fn |-> "prompt_input", text |-> Some(s), subs |-> <<>>] : s \in Templates}

TextInit ==
    /\ NotStarted
    /\ remoteFiles = <<>>
    /\ remoteCaches = <<>>
    /\ textCall \in TextCalls
    /\ textResult = None

\* validate_player(player) returns or raises.
CallValidatePlayer ==
    /\ textCall.fn = "validate_player"
    /\ textResult = None
    /\ textResult' = Some(validate_player(textCall.text))
    /\ UNCHANGED <<textCall, runVars>>

\* validate_input(input) returns or raises.
CallValidateInput ==
    /\ textCall.fn = "validate_input"
    /\ textResult = None
    /\ textResult' = Some(validate_input(textCall.text))
    /\ UNCHANGED <<textCall, runVars>>

\* The keys rendered so far.
RenderedKeys == {textCall.subs[i][1] : i \in 1..Len(textCall.subs)}

\* prompt = prompt_input(prompt, key, value): the text rendered so far is
\* rendered for one more key, as run() does for PLAYER and then INPUT.
CallPromptInput ==
    /\ textCall.fn = "prompt_input"
    /\ \E key \in TemplateKeys \ RenderedKeys, value \in TemplateValues :
        /\ textResult' = Some(prompt_input(IF textResult = None THEN textCall.text[1]
                                           ELSE textResult[1], key, value))
        /\ textCall' = [textCall EXCEPT !.subs = Append(@, <<key, value>>)]
    /\ UNCHANGED runVars

TextNext == CallValidatePlayer \/ CallValidateInput \/ CallPromptInput

SpecText == TextInit /\ [][TextNext]_vars

\* ------------------------------------------------------ reading the history
\* The calls of run r whose operation is in ops, in order.
CallsOf(r, ops) == SelectSeq(calls[r], LAMBDA c : c.op \in ops)

ReconcileOps == {"files.list", "files.upload", "caches.list", "caches.create"}

\* Spec section 7 names error kinds; the program raises these exceptions.
ErrorKind(err) ==
    CASE err.exc = "NameError" -> "MissingField"
      [] err.exc = "ValueError" /\ err.msg \in {"Player is not an alphanumeric ID",
                                                "Battle input is not valid JSON"}
            -> "InvalidFormat"
      [] err.exc = "ValueError" /\ err.msg \in {"Battle input is missing player data",
                                                "Battle input is missing battle state",
                                                "Battle input is missing request data",
                                                "Battle input is missing failed actions"}
            -> "IncompleteInput"
      [] err.exc = "ValueError" /\ err.msg = "Data directory does not exist"
            -> "NotFound"
      [] err.exc = "ValueError" /\ err.msg = "Data directory is not a directory"
            -> "NotADirectory"
      [] err.exc = "ValueError" /\ err.msg \in {"Caching must be enabled if using data files",
                                                "Data directory must be defined if using data files"}
            -> "InvalidConfiguration"
      [] OTHER -> err.exc

\* The files of the data directory that ensure_file is called for, in order.
Eligible == SelectSeq(DataDirEntries, LAMBDA e : e.is_file /\ JsonFilter(e))

EligibleName(k) == DisplayNameOf(PrefixData, Eligible[k].rel)

FileDisplayNames == {EligibleName(k) : k \in 1..Len(Eligible)}

\* <<r, k>>: the k-th ensure_file call of run r has returned, asked for name d.
EnsureFileReturned(d) ==
    {rk \in Runs \X (1..Len(Eligible)) :
        /\ files[rk[1]] # None
        /\ rk[2] <= Len(files[rk[1]][1])
        /\ EligibleName(rk[2]) = d}

\* Runs inside an ensure_file call for d that has listed and not returned.
EnsureFilePending(d) ==
    {r \in Runs :
        /\ files[r] # None
        /\ pc[r] \in {"files_upload", "failed"}
        /\ idx[r] \in 1..Len(DataDirEntries)
        /\ CurrentDisplayName(r) = d}

\* <<r, i>>: call i of run r is a call of operation op for display name d.
NamedCalls(op, d) ==
    UNION {{<<r, i>> : i \in {j \in 1..Len(calls[r]) :
                                 /\ calls[r][j].op = op
                                 /\ calls[r][j].display_name = d}} : r \in Runs}

\* The named calls that did not raise (a raising call is the last of its run).
Answered(namedCalls) ==
    {ri \in namedCalls :
        ~(error[ri[1]].exc = "APIError" /\ ri[2] = Len(calls[ri[1]]))}

\* The remote file existed before any run of the model.
ExistedBefore(d) == \E i \in 1..Len(remoteFiles) :
                        remoteFiles[i].by = 0 /\ remoteFiles[i].display_name = d

\* ------------------------------------------------------------------ claims
\* C1: with runs one after the other, once two ensure_file calls for the same
\* display name have returned, they returned the same file, they issued one
\* list call each, and the upload calls they made for that name number one if
\* no file of that name existed before and none otherwise.
C1_EnsureFileIdempotent ==
    \A d \in FileDisplayNames :
        LET returned == EnsureFileReturned(d)
        IN  Cardinality(returned) >= 2 =>
            /\ \A a, b \in returned :
                   files[a[1]][1][a[2]] = files[b[1]][1][b[2]]
            /\ Cardinality(Answered(NamedCalls("files.upload", d)))
                   = IF ExistedBefore(d) THEN 0 ELSE 1
            /\ Cardinality(NamedCalls("files.list", d))
                   = Cardinality(returned) + Cardinality(EnsureFilePending(d))

\* C1 witness: two ensure_file calls for a name not on the account before
\* have returned, after one upload.
C1_Witness ==
    \E d \in FileDisplayNames :
        /\ ~ExistedBefore(d)
        /\ Cardinality(EnsureFileReturned(d)) >= 2
        /\ Cardinality(NamedCalls("files.upload", d)) = 1
        /\ Cardinality(NamedCalls("files.list", d)) = 2

\* The generate calls of run r.
GenerateCalls(r) == CallsOf(r, {"generate_content"})

\* Run r has valid options (Options.__init__ returned).
HasOptions(r) == pc[r] # "start" /\ opts[r] # NoOptions

\* C2 (as claimed): a run whose options have use_data_files set without
\* use_cache, or without a data directory, has issued no remote call, and
\* when it has failed it failed with InvalidConfiguration.
C2_InvalidConfigurationBeforeRemote ==
    \A r \in Runs :
        (HasOptions(r) /\ opts[r].use_data_files
                       /\ (~opts[r].use_cache \/ opts[r].data = None)) =>
            /\ calls[r] = <<>>
            /\ pc[r] = "failed" => ErrorKind(error[r]) = "InvalidConfiguration"

\* C3: every generate call carries the prompt as its only content and one of
\* two configurations: with use_cache the name of the cache ensure_cache
\* returned and no system instruction, otherwise the context as system
\* instruction and no cache; never both.
C3_ConfigExclusive ==
    \A r \in Runs : \A i \in 1..Len(GenerateCalls(r)) :
        LET call == GenerateCalls(r)[i]
            cfg  == call.config
        IN  /\ ~(cfg.system_instruction # None /\ cfg.cached_content # None)
            /\ call.contents = prompt[r]
            /\ IF opts[r].use_cache
               THEN /\ cache[r] # None
                    /\ cfg.cached_content = Some(cache[r][1].name)
                    /\ cfg.system_instruction = None
               ELSE /\ cfg.system_instruction = Some(context[r])
                    /\ cfg.cached_content = None

\* C3 witness: one run has generated through a cache, another inline.
C3_Witness ==
    \E r, q \in Runs :
        /\ pc[r] = "done" /\ opts[r].use_cache /\ Len(GenerateCalls(r)) = 1
        /\ pc[q] = "done" /\ ~opts[q].use_cache /\ Len(GenerateCalls(q)) = 1

\* C4: a run with valid options, use_cache false and use_data_files false
\* issues no reconciliation call and at most one generate call, exactly one
\* once it has returned; that call carries the text of context.md as inline
\* system instruction and a prompt that contains the player identifier and
\* the serialized battle input.
C4_InlineRun ==
    \A r \in Runs :
        (HasOptions(r) /\ ~opts[r].use_cache /\ ~opts[r].use_data_files) =>
            /\ CallsOf(r, ReconcileOps) = <<>>
            /\ Len(GenerateCalls(r)) <= 1
            /\ pc[r] = "done" => Len(GenerateCalls(r)) = 1
            /\ \A i \in 1..Len(GenerateCalls(r)) :
                LET call == GenerateCalls(r)[i]
                IN  /\ call.config.system_instruction = ContextFile
                    /\ call.config.cached_content = None
                    /\ IsSubstring(opts[r].player, call.contents)
                    /\ IsSubstring(opts[r].input, call.contents)

\* C4 witness: such a run has returned a decision after its generate call.
C4_Witness ==
    \E r \in Runs :
        /\ HasOptions(r) /\ ~opts[r].use_cache /\ ~opts[r].use_data_files
        /\ pc[r] = "done"
        /\ Len(GenerateCalls(r)) = 1
        /\ opts[r].input = json_dumps(json_loads(InputComplete).val)

CreateCalls(log) == SelectSeq(log, LAMBDA c : c.op = "caches.create")

CacheListCalls(log) == SelectSeq(log, LAMBDA c : c.op = "caches.list")

NamedBattler(listing) ==
    {i \in 1..Len(listing) : listing[i].display_name = CacheDisplayName}

\* C5: a step of ensure_cache either finds, in the listing, a cache whose
\* display name is "battler" and returns it as it is without a create call
\* and without changing any cache, or, only when the listing has none, issues
\* one caches.create call for the model with that display name, the context
\* as system instruction, the files of the run and a ttl of 300 s, and returns
\* the cache created by it; it lists once.
C5_EnsureCache ==
    [][\A r \in Runs :
        /\ Len(CacheListCalls(calls'[r])) <= 1
        /\ Len(CreateCalls(calls'[r])) <= 1
        /\ (pc[r] = "caches_list" /\ pc'[r] = "generate") =>
            /\ \E i \in NamedBattler(remoteCaches) : cache'[r] = Some(remoteCaches[i])
            /\ remoteCaches' = remoteCaches
            /\ CreateCalls(calls'[r]) = <<>>
            /\ Len(CacheListCalls(calls'[r])) = 1
        /\ (pc[r] = "caches_list" /\ pc'[r] = "caches_create") =>
            /\ NamedBattler(remoteCaches) = {}
            /\ remoteCaches' = remoteCaches
        /\ (pc[r] = "caches_create" /\ pc'[r] = "generate") =>
            /\ calls'[r] = Append(calls[r],
                   [op |-> "caches.create", model |-> ModelName,
                    display_name |-> CacheDisplayName,
                    system_instruction |-> ContextFile[1],
                    contents |-> files[r], ttl |-> "300s"])
            /\ Len(remoteCaches') = Len(remoteCaches) + 1
            /\ SubSeq(remoteCaches', 1, Len(remoteCaches)) = remoteCaches
            /\ cache'[r] = Some(remoteCaches'[Len(remoteCaches')])
            /\ LET c == cache'[r][1]
               IN  /\ c.display_name = CacheDisplayName
                   /\ c.model = ModelName
                   /\ c.system_instruction = ContextFile[1]
                   /\ c.contents = files[r]
                   /\ c.ttl = "300s"
                   /\ c.by = r
      ]_vars

\* C5 witness: one run created the cache with its data files attached and
\* another run, which asked for no files, got that same cache back.
C5_Witness ==
    \E r, q \in Runs :
        /\ r # q
        /\ cache[r] # None /\ cache[r][1].by = r /\ cache[r][1].contents # None
        /\ cache[q] = cache[r]
        /\ files[q] = None
        /\ CreateCalls(calls[q]) = <<>>

GenerateIn(log) == SelectSeq(log, LAMBDA c : c.op = "generate_content")

\* C6: a run issues at most one generate call, exactly one, as its last
\* call, when it returns; a remote call that raises ends the run in failure,
\* and a run that has ended issues no further call.
C6_SingleGenerateNoRetry ==
    [][\A r \in Runs :
        /\ Len(GenerateIn(calls'[r])) <= 1
        /\ pc'[r] = "done" =>
            /\ Len(GenerateIn(calls'[r])) = 1
            /\ calls'[r][Len(calls'[r])].op = "generate_content"
        /\ error'[r].exc = "APIError" =>
            /\ pc'[r] = "failed"
            /\ calls'[r][Len(calls'[r])].op = error'[r].msg
        /\ pc[r] \in {"done", "failed"} =>
            /\ pc'[r] = pc[r]
            /\ calls'[r] = calls[r]
      ]_vars

\* C6 witness: one run has returned after its generate call and another has
\* failed on a remote call after earlier calls had succeeded.
C6_Witness ==
    \E r, q \in Runs :
        /\ pc[r] = "done" /\ Len(GenerateCalls(r)) = 1
        /\ pc[q] = "failed" /\ error[q].exc = "APIError" /\ Len(calls[q]) >= 3

\* C7 (as claimed): a run ends successfully only with a non-empty decision
\* text; a response without text makes the run fail.
C7_NoTextFails ==
    \A r \in Runs :
        pc[r] = "done" => output[r] # None /\ output[r] # Some(<<>>)

ValidationKinds ==
    {"MissingField", "InvalidFormat", "IncompleteInput", "NotFound", "NotADirectory"}

\* The remote resources created by run r.
CreatedBy(listing, r) == {i \in 1..Len(listing) : listing[i].by = r}

\* C8: a run that failed validation of its player, battle input or data
\* directory has issued no remote call and created no remote file or cache.
C8_ValidationBeforeRemote ==
    \A r \in Runs :
        (pc[r] = "failed" /\ ErrorKind(error[r]) \in ValidationKinds) =>
            /\ calls[r] = <<>>
            /\ CreatedBy(remoteFiles, r) = {}
            /\ CreatedBy(remoteCaches, r) = {}

\* C8 witness: one run was rejected for its data path and another for its
\* battle input.
C8_Witness ==
    \E r, q \in Runs :
        /\ pc[r] = "failed" /\ ErrorKind(error[r]) = "NotADirectory"
        /\ pc[q] = "failed" /\ ErrorKind(error[q]) = "IncompleteInput"

\* C9: with concurrent runs, each run issues at most one generate call,
\* exactly one once it has returned, and with use_cache that call names a
\* cache called "battler" that the run obtained itself: the one it created
\* if its create call was answered, else one created by someone else that
\* it found in its listing.
C9_RaceKeepsOwnCache ==
    \A r \in Runs :
        /\ Len(GenerateCalls(r)) <= 1
        /\ pc[r] = "done" => Len(GenerateCalls(r)) = 1
        /\ \A i \in 1..Len(GenerateCalls(r)) :
            opts[r].use_cache =>
                LET ref == GenerateCalls(r)[i].config.cached_content
                IN  /\ ref # None
                    /\ ref[1] \in NamedBattler(remoteCaches)
                    /\ remoteCaches[ref[1]].name = ref[1]
                    /\ IF CreateCalls(calls[r]) # <<>>
                       THEN remoteCaches[ref[1]].by = r
                       ELSE remoteCaches[ref[1]].by # r

\* C9 witness: two runs have returned, each after creating its own cache
\* named "battler" and its own file under one display name.
C9_Witness ==
    \E r, q \in Runs :
        /\ r # q /\ pc[r] = "done" /\ pc[q] = "done"
        /\ \E i, j \in NamedBattler(remoteCaches) :
            /\ remoteCaches[i].by = r /\ remoteCaches[j].by = q
            /\ GenerateCalls(r)[1].config.cached_content = Some(i)
            /\ GenerateCalls(q)[1].config.cached_content = Some(j)
        /\ \E i, j \in 1..Len(remoteFiles) :
            /\ remoteFiles[i].by = r /\ remoteFiles[j].by = q
            /\ remoteFiles[i].display_name = remoteFiles[j].display_name

\* No two listed resources share a display name.
UniqueNames(listing) ==
    \A i, j \in 1..Len(listing) :
        listing[i].display_name = listing[j].display_name => i = j

\* C10: with runs one after the other, no two remote files and no two remote
\* caches share a display name, and whatever a run got from ensure_file or
\* ensure_cache is the one remote resource of that name, so that all runs
\* hold the same file per name and the same cache.
C10_OnePerDisplayName ==
    /\ UniqueNames(remoteFiles)
    /\ UniqueNames(remoteCaches)
    /\ \A r \in Runs :
        /\ cache[r] # None =>
            \E i \in NamedBattler(remoteCaches) : remoteCaches[i] = cache[r][1]
        /\ files[r] # None =>
            \A k \in 1..Len(files[r][1]) :
                /\ files[r][1][k].display_name = EligibleName(k)
                /\ \E i \in 1..Len(remoteFiles) : remoteFiles[i] = files[r][1][k]

\* C10 witness: a later run has returned with the cache and the files an
\* earlier run created, without creating anything itself.
C10_Witness ==
    \E r, q \in Runs :
        /\ r # q /\ pc[r] = "done" /\ pc[q] = "done"
        /\ cache[r] # None /\ cache[r][1].by = r /\ cache[q] = cache[r]
        /\ files[r] # None /\ Len(files[r][1]) = Len(Eligible)
        /\ files[q] = files[r]
        /\ \E k \in 1..Len(Eligible) : files[r][1][k].by = r
        /\ CallsOf(q, {"files.upload", "caches.create"}) = <<>>

\* The text function fn was called on its own and has returned or raised.
TextReturned(fn) == textCall.fn = fn /\ textResult # None

\* C11 (as claimed): validate_player returns unchanged every non-empty
\* string made only of characters of [A-Za-z0-9_-], and fails with
\* InvalidFormat for every string with a character outside that set, a
\* letter or digit outside ASCII and a trailing newline included.
C11_ValidatePlayerAsciiOnly ==
    (TextReturned("validate_player") /\ textCall.text # None) =>
        LET player == textCall.text[1]
            got    == textResult[1]
        IN  /\ (player # <<>> /\ Range(player) \subseteq AsciiWord \cup {"-"}) =>
                got = Return(player)
            /\ ~(Range(player) \subseteq AsciiWord \cup {"-"}) =>
                ErrorKind(got.error) = "InvalidFormat"

\* The text is JSON and its value is an object.
IsJsonObject(s) == With(json_loads(s), LAMBDA p : p.ok /\ p.val.t = "obj")

\* C12 (as claimed): validate_input fails with InvalidFormat for every
\* non-empty input that is not a JSON object, be it malformed text, a JSON
\* array or a JSON scalar.
C12_NonObjectIsInvalidFormat ==
    (TextReturned("validate_input") /\ textCall.text # None) =>
        LET input == textCall.text[1]
        IN  (input # <<>> /\ ~IsJsonObject(input)) =>
                ErrorKind(textResult[1].error) = "InvalidFormat"

\* input[key] for a dict that has the key.
ValueOf(obj, key) == obj.vals[CHOOSE i \in 1..Len(obj.keys) : obj.keys[i] = key]

RequiredKeySet == {RequiredKeys[i] : i \in 1..Len(RequiredKeys)}

\* C13: for a JSON object with the four required keys validate_input
\* returns a text that parses back to an object with the same keys and, under
\* each key, an equal value; for a JSON object that lacks one of the four
\* keys it fails with IncompleteInput.
C13_ValidateInputRoundTrip ==
    (TextReturned("validate_input") /\ textCall.text # None
        /\ textCall.text # Some(<<>>) /\ IsJsonObject(textCall.text[1])) =>
        LET given == json_loads(textCall.text[1]).val
            got   == textResult[1]
        IN  IF \A k \in RequiredKeySet : HasKey(given, k)
            THEN /\ got.error = NoError
                 /\ IsJsonObject(got.value)
                 /\ LET back == json_loads(got.value).val
                    IN  /\ \A k \in RequiredKeySet : HasKey(back, k)
                        /\ Range(back.keys) = Range(given.keys)
                        /\ \A k \in Range(given.keys) :
                               ValueOf(back, k) = ValueOf(given, k)
            ELSE ErrorKind(got.error) = "IncompleteInput"

\* C13 witness: validate_input returned, for an object with the four keys,
\* nested values and a fifth key, a text other than the one it was given.
C13_Witness ==
    /\ TextReturned("validate_input")
    /\ textResult[1].error = NoError
    /\ textResult[1].value # textCall.text[1]
    /\ LET back == json_loads(textResult[1].value).val
       IN  /\ Len(back.keys) = 5
           /\ ValueOf(back, KeyPlayerData).t = "obj"
           /\ ValueOf(back, KeyFailedActions).t = "arr"

\* C14 (as claimed): prompt_input replaces a placeholder of its key by the
\* value whatever the whitespace between the braces and the key, none
\* included, and leaves the text around it as it is.
C14_RenderAnyWhitespace ==
    (TextReturned("prompt_input") /\ Len(textCall.subs) = 1) =>
        LET key   == textCall.subs[1][1]
            value == textCall.subs[1][2]
        IN  \A pre \in TemplatePrefixes, post \in TemplateSuffixes :
            \A before, after \in Blanks :
                textCall.text[1] = pre \o Placeholder(before, key, after) \o post =>
                    textResult[1] = pre \o value \o post

\* C15 (as claimed): rendering two distinct keys one after the other gives
\* the text that rendering them in the other order gives, also when a value
\* holds placeholder text of the other key.
C15_RenderCommutes ==
    (TextReturned("prompt_input") /\ Len(textCall.subs) = 2) =>
        LET first  == textCall.subs[1]
            second == textCall.subs[2]
        IN  textResult[1] =
                prompt_input(prompt_input(textCall.text[1], second[1], second[2]),
                             first[1], first[2])

\* listing is the start of listing2: nothing was removed, changed or reordered.
IsPrefix(listing, listing2) ==
    /\ Len(listing) <= Len(listing2)
    /\ SubSeq(listing2, 1, Len(listing)) = listing

\* C16: no step of a run removes or changes a remote file or cache: after
\* the step every file and cache that was there is still there, unchanged and
\* at its place, and what a step adds is at most one resource, created by
\* the run that took the step.
C16_RemoteOnlyGrows ==
    [][/\ IsPrefix(remoteFiles, remoteFiles')
       /\ IsPrefix(remoteCaches, remoteCaches')
       /\ Len(remoteFiles') + Len(remoteCaches')
              <= Len(remoteFiles) + Len(remoteCaches) + 1
       /\ \A i \in (Len(remoteFiles) + 1)..Len(remoteFiles') :
              /\ remoteFiles'[i].by \in Runs
              /\ calls'[remoteFiles'[i].by] # calls[remoteFiles'[i].by]
       /\ \A i \in (Len(remoteCaches) + 1)..Len(remoteCaches') :
              /\ remoteCaches'[i].by \in Runs
              /\ calls'[remoteCaches'[i].by] # calls[remoteCaches'[i].by]
      ]_vars

\* C16 witness: the file that was on the account before is still first in
\* the listing, unchanged, after a run has added files and a cache and
\* returned.
C16_Witness ==
    /\ Len(remoteFiles) >= 3
    /\ remoteFiles[1] = StaleFile
    /\ \E r \in Runs :
        /\ pc[r] = "done"
        /\ CreatedBy(remoteFiles, r) # {}
        /\ CreatedBy(remoteCaches, r) # {}

FileCalls(r) == CallsOf(r, {"files.list", "files.upload"})

StepOf(op) ==
    CASE op = "models.get" -> 0
      [] op \in {"files.list", "files.upload"} -> 1
      [] op = "caches.list" -> 2
      [] op = "caches.create" -> 3
      [] op = "generate_content" -> 4

\* The calls of the log are in the order of the steps, no step but the file
\* step has more than one call, and every upload directly follows the list
\* call of the same display name.
InStepOrder(log) ==
    /\ \A i, j \in 1..Len(log) :
           i < j => /\ StepOf(log[i].op) <= StepOf(log[j].op)
                    /\ StepOf(log[i].op) = StepOf(log[j].op) => StepOf(log[i].op) = 1
    /\ \A i \in 1..Len(log) :
           log[i].op = "files.upload" =>
               /\ i > 1
               /\ log[i - 1].op = "files.list"
               /\ log[i - 1].display_name = log[i].display_name

\* C18: the calls of a run follow the order of the steps, with no step
\* taken twice: every file call comes before the cache listing, the listing
\* before the create call, all of them before the one generate call; each
\* step issues one call, as the last of the log, that has been answered when
\* the next is issued; and an upload is issued only by the ensure_file call
\* whose listing, just before, held no file of the requested display name.
C18_CallsInStepOrder ==
    [][\A r \in Runs :
        /\ InStepOrder(calls'[r])
        /\ Len(calls'[r]) <= Len(calls[r]) + 1
        /\ IsPrefix(calls[r], calls'[r])
        /\ pc'[r] = "files_upload" /\ pc[r] # "files_upload" =>
            /\ pc[r] = "files_list"
            /\ calls'[r][Len(calls'[r])].op = "files.list"
            /\ FindByDisplayName(remoteFiles, calls'[r][Len(calls'[r])].display_name) = 0
            /\ UNCHANGED <<idx, files>>
        /\ (calls'[r] # calls[r] /\ calls'[r][Len(calls'[r])].op = "files.upload") =>
            pc[r] = "files_upload"
      ]_vars

\* C18 witness: a run has returned after calls of every kind.
C18_Witness ==
    \E r \in Runs :
        /\ pc[r] = "done"
        /\ {calls[r][i].op : i \in 1..Len(calls[r])}
               = {"models.get", "files.list", "files.upload", "caches.list",
                  "caches.create", "generate_content"}

\* C19 (as claimed): once ensure_all_files_in_directory has returned in a
\* run that found no file on the account and is alone in uploading, it has
\* made one upload call per eligible file, and the references it returned for
\* distinct eligible files are distinct remote files, each holding the bytes
\* of its own file.
C19_DistinctFilesPerPath ==
    \A r \in Runs :
        (/\ files[r] # None
         /\ Len(files[r][1]) = Len(Eligible)
         /\ \A i \in 1..Len(remoteFiles) : remoteFiles[i].by = r) =>
            /\ Len(CallsOf(r, {"files.upload"})) = Len(Eligible)
            /\ \A k, l \in 1..Len(Eligible) :
                   k # l => files[r][1][k].name # files[r][1][l].name
            /\ \A k \in 1..Len(Eligible) :
                   files[r][1][k].source = Eligible[k].rel

RECURSIVE Substituted(_, _, _, _)

\* The template from position i with every PLAYER placeholder replaced by
\* player and every INPUT placeholder by input, in one pass over the
\* template: what is inserted is not looked at again.
Substituted(template, i, player, input) ==
    IF i > Len(template) THEN <<>>
    ELSE LET p == PlaceholderEnd(template, i, KeyPLAYER)
             q == PlaceholderEnd(template, i, KeyINPUT)
         IN  IF p > 0 THEN player \o Substituted(template, p, player, input)
             ELSE IF q > 0 THEN input \o Substituted(template, q, player, input)
             ELSE <<template[i]>> \o Substituted(template, i + 1, player, input)

\* C20: the prompt of every generate call is the prompt template with each
\* PLAYER placeholder replaced by the validated player and each INPUT
\* placeholder by the serialized battle input and nothing else changed, also
\* when the battle input holds the text of the two placeholders.
C20_PromptIsTemplateSubstituted ==
    \A r \in Runs : \A i \in 1..Len(GenerateCalls(r)) :
        /\ GenerateCalls(r)[i].contents
               = Substituted(PromptFile[1], 1, opts[r].player, opts[r].input)
        /\ GenerateCalls(r)[i].contents
               = opts[r].player \o <<":", " ">> \o opts[r].input

\* C20 witness: a generate call was issued with a prompt in which the
\* battle input still holds the text of the PLAYER and INPUT placeholders.
C20_Witness ==
    \E r \in Runs :
        /\ GenerateCalls(r) # <<>>
        /\ IsSubstring(Placeholder(<<" ">>, KeyPLAYER, <<" ">>), opts[r].input)
        /\ IsSubstring(Placeholder(<<" ">>, KeyINPUT, <<" ">>), opts[r].input)
        /\ IsSubstring(opts[r].input, GenerateCalls(r)[1].contents)

=============================================================================
